---- MODULE Spec2Model ----
(***************************************************************************)
(* A model of pcf_font: the LruCache of cache.py and the PcfFont of pcf.py *)
(* (opening a font, the glyph-index lookup, load_glyphs and get_glyph).    *)
(*                                                                         *)
(* The cache is the OrderedDict of LruCache as a sequence of entries in    *)
(* iteration order: move_to_end(key, last=False) puts an entry first, and  *)
(* popitem() removes the last one.  "Front" is position 1.                 *)
(***************************************************************************)
EXTENDS Integers, Sequences, FiniteSets, TLC

(***************************************************************************)
(* cache, capacity : LruCache._cache and LruCache._capacity                *)
(* stream          : PcfFont._file: "none" before open(), then "open" or   *)
(*                   "closed"                                              *)
(* font            : the fields __init__ sets (encoding range, padding,    *)
(*                   metrics form); opened is FALSE until it has returned  *)
(* disk            : the dense glyph-index table of the file's encodings   *)
(*                   table, as the stream reads it                         *)
(* pre, last       : history: the cache before the last call, and the call *)
(*                   (name, arguments, result, error, stream reads)        *)
(* touched, nputs  : history of the LruCache used directly: the distinct   *)
(*                   keys touched, most recent first, and the put count    *)
(*                   (counted up to capacity + 1)                          *)
(***************************************************************************)
VARIABLES cache, capacity, pre, last, touched, nputs, stream, font, disk

vars == <<cache, capacity, pre, last, touched, nputs, stream, font, disk>>

(***************************************************************************)
(* Bounds of the model.                                                    *)
(***************************************************************************)
MaxCapacity == 2
MaxLruCapacity == 3
MaxKey == 3
MaxValue == 1
MaxBatch == 2

(***************************************************************************)
(* Values.  A Glyph is the index of the glyph its metrics came from and    *)
(* the state of its bitmap: "blank" as DisplayioBitmap() creates it,       *)
(* "decoded" once bitmaptools.readinto has filled it.  None is the empty   *)
(* sequence, a returned value v is <<v>>.                                  *)
(***************************************************************************)
Glyph(index, bitmap) == [glyph |-> index, bitmap |-> bitmap]

None == <<>>

Entry(key, value) == [key |-> key, value |-> value]

Keys(c) == [i \in 1..Len(c) |-> c[i].key]

KeySet(c) == {c[i].key : i \in 1..Len(c)}

ValueOf(c, key) == (CHOOSE i \in 1..Len(c) : c[i].key = key)

(***************************************************************************)
(* OrderedDict, as LruCache uses it.                                       *)
(***************************************************************************)
dict_get(c, key) ==
    IF key \in KeySet(c) THEN <<c[ValueOf(c, key)].value>> ELSE None

popitem(c) == SubSeq(c, 1, Len(c) - 1)

setitem(c, key, value) ==
    IF key \in KeySet(c)
    THEN [i \in 1..Len(c) |-> IF c[i].key = key THEN Entry(key, value) ELSE c[i]]
    ELSE Append(c, Entry(key, value))

move_to_end(c, key, toLast) ==
    LET e == c[ValueOf(c, key)]
        rest == SelectSeq(c, LAMBDA x : x.key # key)
    IN  IF toLast THEN Append(rest, e) ELSE <<e>> \o rest

(***************************************************************************)
(* LruCache.get: the new dictionary and the returned data.                 *)
(***************************************************************************)
get_keeps_order(c, key) ==
    [cache |-> c, data |-> dict_get(c, key)]

get(c, key) ==
    LET data == dict_get(c, key)
    IN  [cache |-> IF data # None THEN move_to_end(c, key, FALSE) ELSE c,
         data  |-> data]

(***************************************************************************)
(* LruCache.put.                                                           *)
(***************************************************************************)
put_never_evicts(c, cap, key, value) ==
    move_to_end(setitem(c, key, value), key, FALSE)

put_evicts_after_insert(c, cap, key, value) ==
    LET c1 == setitem(c, key, value)
        c2 == IF Len(c1) > cap THEN popitem(c1) ELSE c1
    IN  IF key \in KeySet(c2) THEN move_to_end(c2, key, FALSE) ELSE c2

put(c, cap, key, value) ==
    LET c1 == IF Len(c) >= cap THEN popitem(c) ELSE c
    IN  move_to_end(setitem(c1, key, value), key, FALSE)

contains(c, key) == key \in KeySet(c)

(***************************************************************************)
(* The record of the last call: its name, arguments, result and the        *)
(* stream accesses it made.                                                *)
(***************************************************************************)
NoFile ==
    [magic |-> TRUE, toc |-> <<>>, glyph_count |-> 0, metrics_count |-> 0,
     enc |-> <<>>]

Call(op) ==
    [op |-> op, cp |-> -1, batch |-> <<>>, value |-> None, ret |-> None,
     flag |-> FALSE, index |-> -2, err |-> "none", reads |-> <<>>,
     failed |-> 0, file |-> NoFile]

(***************************************************************************)
(* The history of touches: the distinct keys touched by a put or by a get  *)
(* that hit, most recent first, and the number of put calls.               *)
(***************************************************************************)
Touch(t, key) == <<key>> \o SelectSeq(t, LAMBDA x : x # key)

LruKeys == 1..MaxKey

LruValues == {Glyph(g, "decoded") : g \in 0..MaxValue}

NoFont == [opened |-> FALSE]

InitLru ==
    /\ cache = <<>>
    /\ capacity \in 1..MaxLruCapacity
    /\ pre = <<>>
    /\ last = Call("init")
    /\ touched = <<>>
    /\ nputs = 0
    /\ stream = "none"
    /\ font = NoFont
    /\ disk = <<>>

Put(key, value) ==
    /\ cache' = put(cache, capacity, key, value)
    /\ pre' = cache
    /\ last' = [Call("put") EXCEPT !.cp = key, !.value = <<value>>]
    /\ touched' = Touch(touched, key)
    /\ nputs' = IF nputs > capacity THEN nputs ELSE nputs + 1
    /\ UNCHANGED <<capacity, stream, font, disk>>

Get(key) ==
    LET r == get(cache, key)
    IN  /\ cache' = r.cache
        /\ pre' = cache
        /\ last' = [Call("get") EXCEPT !.cp = key, !.ret = r.data]
        /\ touched' = IF r.data # None THEN Touch(touched, key) ELSE touched
        /\ UNCHANGED <<capacity, nputs, stream, font, disk>>

Contains(key) ==
    /\ pre' = cache
    /\ last' = [Call("contains") EXCEPT !.cp = key, !.flag = contains(cache, key)]
    /\ UNCHANGED <<cache, capacity, touched, nputs, stream, font, disk>>

NextLru ==
    \/ \E key \in LruKeys, value \in LruValues : Put(key, value)
    \/ \E key \in LruKeys : Get(key)
    \/ \E key \in LruKeys : Contains(key)

SpecLru == InitLru /\ [][NextLru]_vars

(***************************************************************************)
(* pcf.py: the constants of the file format.                               *)
(***************************************************************************)
OtherTableType == 1
PCF_TABLETYPE_ACCELERATORS == 2
PCF_TABLETYPE_METRICS == 4
PCF_TABLETYPE_BITMAPS == 8
PCF_TABLETYPE_BDFENCODINGS == 32
PCF_TABLETYPE_BDFACCELERATORS == 256
PCF_BYTE_MASK == 4
PCF_BIT_MASK == 8
PCF_SCAN_UNIT_MASK == 48
PCF_GLYPH_PAD_MASK == 3
PCF_COMPRESSED_METRICS == 256
NoGlyphSentinel == 65535

RECURSIVE BitAnd(_, _)
BitAnd(a, b) ==
    IF a = 0 \/ b = 0 THEN 0
    ELSE (a % 2) * (b % 2) + 2 * BitAnd(a \div 2, b \div 2)

RECURSIVE Pow2(_)
Pow2(n) == IF n = 0 THEN 1 ELSE 2 * Pow2(n - 1)

necessary_tables_types ==
    {PCF_TABLETYPE_ACCELERATORS, PCF_TABLETYPE_METRICS, PCF_TABLETYPE_BITMAPS,
     PCF_TABLETYPE_BDFENCODINGS, PCF_TABLETYPE_BDFACCELERATORS}

(***************************************************************************)
(* The tables dictionary __init__ builds from the table of contents: the   *)
(* necessary types only, a later entry of a type replacing an earlier one. *)
(***************************************************************************)
tables_of(toc) ==
    LET types == {toc[i].type : i \in 1..Len(toc)} \cap necessary_tables_types
        lastOf(t) == CHOOSE i \in 1..Len(toc) :
                        /\ toc[i].type = t
                        /\ \A j \in 1..Len(toc) : toc[j].type = t => j <= i
    IN  [t \in types |-> toc[lastOf(t)].format]

(***************************************************************************)
(* PcfFont.__init__ on an acquired stream: the error it raises ("none" on  *)
(* success) and the fields of the font it sets.                            *)
(***************************************************************************)
Failure(err) == [err |-> err, font |-> NoFont]

PcfFont_init(file) ==
    LET tables == tables_of(file.toc)
        both == PCF_BYTE_MASK + PCF_BIT_MASK
    IN  IF ~file.magic THEN Failure("ValueError")
        ELSE IF Cardinality(DOMAIN tables) < 4 THEN Failure("ValueError")
        ELSE IF \E t \in DOMAIN tables : BitAnd(tables[t], both) # both
             THEN Failure("ValueError")
        ELSE IF PCF_TABLETYPE_BITMAPS \notin DOMAIN tables THEN Failure("KeyError")
        ELSE IF BitAnd(tables[PCF_TABLETYPE_BITMAPS], PCF_SCAN_UNIT_MASK) # 0
             THEN Failure("ValueError")
        ELSE IF PCF_TABLETYPE_METRICS \notin DOMAIN tables THEN Failure("KeyError")
        ELSE IF file.metrics_count # file.glyph_count THEN Failure("ValueError")
        ELSE IF PCF_TABLETYPE_BDFENCODINGS \notin DOMAIN tables
             THEN Failure("KeyError")
        ELSE [err |-> "none",
              font |-> [opened |-> TRUE,
                        glyph_padding |->
                            Pow2(BitAnd(tables[PCF_TABLETYPE_BITMAPS],
                                        PCF_GLYPH_PAD_MASK)),
                        metrics_compressed |->
                            BitAnd(tables[PCF_TABLETYPE_METRICS],
                                   PCF_COMPRESSED_METRICS) > 0,
                        min_byte2 |-> file.enc.min_byte2,
                        max_byte2 |-> file.enc.max_byte2,
                        min_byte1 |-> file.enc.min_byte1,
                        max_byte1 |-> file.enc.max_byte1]]

(***************************************************************************)
(* What __init__ leaves of the stream it acquired with open(): no path of  *)
(* it calls close(), and the raised exception's traceback keeps the frame, *)
(* the half-built object and its _file alive while it reaches the caller.  *)
(***************************************************************************)
stream_after_init(err) == "open"

(***************************************************************************)
(* PcfFont._get_glyph_index: the index (-1: not available) and the slots   *)
(* of the encoding table it read.  `table` is the dense index table on     *)
(* disk, element n+1 being slot n.                                         *)
(***************************************************************************)
ReadOf(kind, n) == [table |-> kind, slot |-> n]

get_glyph_index(f, table, code_point) ==
    LET enc1 == (code_point \div 256) % 256
        enc2 == code_point % 256
        index_offset == (enc1 - f.min_byte1) * (f.max_byte2 - f.min_byte2 + 1)
                            + (enc2 - f.min_byte2)
    IN  IF ~(f.min_byte1 <= enc1 /\ enc1 <= f.max_byte1)
           \/ ~(f.min_byte2 <= enc2 /\ enc2 <= f.max_byte2)
        THEN [index |-> -1, reads |-> <<>>]
        ELSE [index |-> IF table[index_offset + 1] = NoGlyphSentinel
                        THEN -1 ELSE table[index_offset + 1],
              reads |-> <<ReadOf("encodings", index_offset)>>]

(***************************************************************************)
(* sorted(): ascending, duplicates kept.                                   *)
(***************************************************************************)
RECURSIVE insert_sorted(_, _)
insert_sorted(s, x) ==
    IF s = <<>> THEN <<x>>
    ELSE IF x < Head(s) THEN <<x>> \o s
    ELSE <<Head(s)>> \o insert_sorted(Tail(s), x)

RECURSIVE sorted(_)
sorted(s) == IF s = <<>> THEN <<>> ELSE insert_sorted(sorted(Tail(s)), Head(s))

RECURSIVE sorted_descending(_)
sorted_descending(s) ==
    IF s = <<>> THEN <<>>
    ELSE LET r == sorted_descending(Tail(s))
             bigger == SelectSeq(r, LAMBDA x : x >= Head(s))
             smaller == SelectSeq(r, LAMBDA x : x < Head(s))
         IN  bigger \o <<Head(s)>> \o smaller

(***************************************************************************)
(* load_glyphs, lines 212-227: the absent code points in sorted order, the *)
(* glyphs_indices dictionary (code point -> index, first occurrence keeps  *)
(* its place), and every stream read up to the first pass, in order: one   *)
(* encoding slot per looked-up code point, then the bitmap offset and the  *)
(* metrics record of every glyph index.                                    *)
(***************************************************************************)
absent_sorted(c, code_points) ==
    sorted(SelectSeq(code_points, LAMBDA x : ~contains(c, x)))

RECURSIVE glyphs_indices(_, _, _)
glyphs_indices(f, table, code_points) ==
    IF code_points = <<>> THEN <<>>
    ELSE LET c == Head(code_points)
             index == get_glyph_index(f, table, c).index
             rest == glyphs_indices(f, table, Tail(code_points))
         IN  IF index >= 0
             THEN <<[cp |-> c, index |-> index]>>
                      \o SelectSeq(rest, LAMBDA e : e.cp # c)
             ELSE rest

RECURSIVE lookup_reads(_, _, _)
lookup_reads(f, table, code_points) ==
    IF code_points = <<>> THEN <<>>
    ELSE get_glyph_index(f, table, Head(code_points)).reads
             \o lookup_reads(f, table, Tail(code_points))

table_reads(kind, items) == [i \in 1..Len(items) |-> ReadOf(kind, items[i].index)]

(***************************************************************************)
(* load_glyphs, lines 231-251: one put of a Glyph with a blank bitmap per  *)
(* entry of glyphs_indices, in its order.                                  *)
(***************************************************************************)
RECURSIVE put_all(_, _, _)
put_all(c, cap, items) ==
    IF items = <<>> THEN c
    ELSE put_all(put(c, cap, Head(items).cp, Glyph(Head(items).index, "blank")),
                 cap, Tail(items))

(***************************************************************************)
(* load_glyphs, lines 253-261: the bitmaps of the first n entries filled.  *)
(* The bitmap is the object the cached Glyph holds, so a glyph still in    *)
(* the cache shows it; one already evicted by a later put does not.        *)
(***************************************************************************)
decode_first(c, items, n) ==
    LET done == {items[i].cp : i \in 1..n}
    IN  [i \in 1..Len(c) |->
            IF c[i].key \in done
            THEN Entry(c[i].key, Glyph(c[i].value.glyph, "decoded"))
            ELSE c[i]]

(***************************************************************************)
(* PcfFont.load_glyphs.  failAt = 0: every read of the stream succeeds;    *)
(* failAt = j: the j-th read of the call raises.  The result is the cache  *)
(* afterwards, the error raised and the reads attempted.                   *)
(***************************************************************************)
all_reads(f, table, c, code_points) ==
    LET todo == absent_sorted(c, code_points)
        items == glyphs_indices(f, table, todo)
    IN  lookup_reads(f, table, todo)
            \o table_reads("bitmap_offsets", items)
            \o table_reads("metrics", items)
            \o table_reads("bitmaps", items)

load_glyphs_descending(f, table, c, cap, code_points, failAt) ==
    LET todo == sorted_descending(SelectSeq(code_points, LAMBDA x : ~contains(c, x)))
        items == glyphs_indices(f, table, todo)
        reads == all_reads(f, table, c, code_points)
        before == Len(reads) - Len(items)
    IN  IF failAt = 0
        THEN [cache |-> decode_first(put_all(c, cap, items), items, Len(items)),
              err |-> "none", reads |-> reads]
        ELSE IF failAt <= before
        THEN [cache |-> c, err |-> "IoError", reads |-> SubSeq(reads, 1, failAt)]
        ELSE [cache |-> decode_first(put_all(c, cap, items), items,
                                     failAt - before - 1),
              err |-> "IoError", reads |-> SubSeq(reads, 1, failAt)]

load_glyphs_rolls_back(f, table, c, cap, code_points, failAt) ==
    LET todo == absent_sorted(c, code_points)
        items == glyphs_indices(f, table, todo)
        reads == all_reads(f, table, c, code_points)
    IN  IF failAt = 0
        THEN [cache |-> decode_first(put_all(c, cap, items), items, Len(items)),
              err |-> "none", reads |-> reads]
        ELSE [cache |-> c, err |-> "IoError", reads |-> SubSeq(reads, 1, failAt)]

load_glyphs(f, table, c, cap, code_points, failAt) ==
    LET todo == absent_sorted(c, code_points)
        items == glyphs_indices(f, table, todo)
        reads == all_reads(f, table, c, code_points)
        before == Len(reads) - Len(items)
    IN  IF failAt = 0
        THEN [cache |-> decode_first(put_all(c, cap, items), items, Len(items)),
              err |-> "none", reads |-> reads]
        ELSE IF failAt <= before
        THEN [cache |-> c, err |-> "IoError", reads |-> SubSeq(reads, 1, failAt)]
        ELSE [cache |-> decode_first(put_all(c, cap, items), items,
                                     failAt - before - 1),
              err |-> "IoError", reads |-> SubSeq(reads, 1, failAt)]

(***************************************************************************)
(* PcfFont.get_glyph: a single-element load_glyphs when the code point is  *)
(* not cached, then LruCache.get.                                          *)
(***************************************************************************)
get_glyph(f, table, c, cap, code_point, failAt) ==
    LET loaded == IF ~contains(c, code_point)
                  THEN load_glyphs(f, table, c, cap, <<code_point>>, failAt)
                  ELSE [cache |-> c, err |-> "none", reads |-> <<>>]
        r == get(loaded.cache, code_point)
    IN  IF loaded.err # "none"
        THEN [cache |-> loaded.cache, err |-> loaded.err, reads |-> loaded.reads,
              ret |-> None]
        ELSE [cache |-> r.cache, err |-> "none", reads |-> loaded.reads,
              ret |-> r.data]

(***************************************************************************)
(* The font files offered to PcfFont(): a magic that matches or not, a     *)
(* table of contents, the two counts, and the encodings table.  A table of *)
(* contents lists a subset of the table types in ascending order, every    *)
(* format supported except at most one entry's; DuplicateTocs repeat a     *)
(* type.                                                                   *)
(***************************************************************************)
FormatMsb == PCF_BYTE_MASK + PCF_BIT_MASK

Formats == {FormatMsb, PCF_BIT_MASK, FormatMsb + 16, FormatMsb + PCF_COMPRESSED_METRICS}

TableTypes == necessary_tables_types \cup {OtherTableType}

TocEntry(type, format) == [type |-> type, format |-> format]

RECURSIVE SetToSeq(_)
SetToSeq(S) ==
    IF S = {} THEN <<>>
    ELSE LET m == CHOOSE x \in S : \A y \in S : x <= y
         IN  <<m>> \o SetToSeq(S \ {m})

TocOf(S, odd, format) ==
    LET types == SetToSeq(S)
    IN  [i \in 1..Len(types) |->
            TocEntry(types[i], IF types[i] = odd THEN format ELSE FormatMsb)]

OrderedTocs ==
    {TocOf(S, odd, format) : S \in SUBSET TableTypes, odd \in TableTypes,
                             format \in Formats}

DuplicateTocs ==
    {TocOf(necessary_tables_types, 0, FormatMsb) \o <<TocEntry(t, format)>> :
        t \in necessary_tables_types, format \in Formats}

Encodings ==
    {[min_byte2 |-> 65, max_byte2 |-> 66, min_byte1 |-> 0, max_byte1 |-> 1,
      table |-> <<0, NoGlyphSentinel, 1, 2>>]}

Files ==
    [magic : BOOLEAN, toc : OrderedTocs \cup DuplicateTocs,
     glyph_count : {3}, metrics_count : {3, 2}, enc : Encodings]

(***************************************************************************)
(* The code points asked for: both rows of the encodings table, its        *)
(* sentinel slot, a low byte and a high byte outside the range, and a code *)
(* point above 0xFFFF (0x10041), as ord() of a str character yields.       *)
(***************************************************************************)
CodePoints == {65, 66, 67, 321, 577, 65601}

Batches == UNION {[1..n -> CodePoints] : n \in 0..MaxBatch}

Init ==
    /\ cache = <<>>
    /\ capacity = 0
    /\ pre = <<>>
    /\ last = Call("idle")
    /\ touched = <<>>
    /\ nputs = 0
    /\ stream = "none"
    /\ font = NoFont
    /\ disk = <<>>

(***************************************************************************)
(* PcfFont(filename, capacity).                                            *)
(***************************************************************************)
Open(file, cap) ==
    /\ stream = "none"
    /\ LET r == PcfFont_init(file)
       IN  /\ font' = r.font
           /\ stream' = stream_after_init(r.err)
           /\ last' = [Call("open") EXCEPT !.file = file, !.err = r.err]
           /\ disk' = IF r.err = "none" THEN file.enc.table ELSE <<>>
           /\ capacity' = IF r.err = "none" THEN cap ELSE 0
    /\ cache' = <<>>
    /\ pre' = <<>>
    /\ UNCHANGED <<touched, nputs>>

LoadGlyphs(code_points, failAt) ==
    /\ font.opened
    /\ failAt <= Len(all_reads(font, disk, cache, code_points))
    /\ LET r == load_glyphs(font, disk, cache, capacity, code_points, failAt)
       IN  /\ cache' = r.cache
           /\ last' = [Call("load_glyphs") EXCEPT !.batch = code_points,
                          !.err = r.err, !.reads = r.reads, !.failed = failAt]
    /\ pre' = cache
    /\ UNCHANGED <<capacity, touched, nputs, stream, font, disk>>

GetGlyph(code_point, failAt) ==
    /\ font.opened
    /\ failAt <= Len(all_reads(font, disk, cache, <<code_point>>))
    /\ LET r == get_glyph(font, disk, cache, capacity, code_point, failAt)
       IN  /\ cache' = r.cache
           /\ last' = [Call("get_glyph") EXCEPT !.cp = code_point, !.ret = r.ret,
                          !.err = r.err, !.reads = r.reads, !.failed = failAt]
    /\ pre' = cache
    /\ UNCHANGED <<capacity, touched, nputs, stream, font, disk>>

GetGlyphIndex(code_point, failAt) ==
    /\ font.opened
    /\ LET r == get_glyph_index(font, disk, code_point)
       IN  /\ failAt <= Len(r.reads)
           /\ last' = [Call("_get_glyph_index") EXCEPT !.cp = code_point,
                          !.index = IF failAt = 0 THEN r.index ELSE -2,
                          !.err = IF failAt = 0 THEN "none" ELSE "IoError",
                          !.reads = r.reads, !.failed = failAt]
    /\ pre' = cache
    /\ UNCHANGED <<cache, capacity, touched, nputs, stream, font, disk>>

(***************************************************************************)
(* The caller takes the result of a call before it makes the next one: the *)
(* record of the call is dropped, the font and its cache stay as they are. *)
(***************************************************************************)
Returned ==
    /\ last.op # "idle"
    /\ last' = Call("idle")
    /\ pre' = <<>>
    /\ UNCHANGED <<cache, capacity, touched, nputs, stream, font, disk>>

Next ==
    \/ /\ stream = "none"
       /\ \E file \in Files, cap \in 1..MaxCapacity : Open(file, cap)
    \/ /\ font.opened /\ last.op = "idle"
       /\ \E code_points \in Batches :
             \E failAt \in 0..Len(all_reads(font, disk, cache, code_points)) :
                LoadGlyphs(code_points, failAt)
    \/ /\ font.opened /\ last.op = "idle"
       /\ \E code_point \in CodePoints :
             \E failAt \in 0..Len(all_reads(font, disk, cache, <<code_point>>)) :
                GetGlyph(code_point, failAt)
    \/ /\ font.opened /\ last.op = "idle"
       /\ \E code_point \in CodePoints :
             \E failAt \in 0..Len(get_glyph_index(font, disk, code_point).reads) :
                GetGlyphIndex(code_point, failAt)
    \/ Returned

Spec == Init /\ [][Next]_vars

(***************************************************************************)
(* Claims about LruCache used directly, under SpecLru.                     *)
(***************************************************************************)
Min(a, b) == IF a < b THEN a ELSE b

Without(s, key) == SelectSeq(s, LAMBDA x : x # key)

\* C1: once more than `capacity` put calls were made, the cache holds exactly
\* the `capacity` most recently touched distinct keys (all of them when fewer
\* were touched), front to back in most-recently-touched-first order.
C1_LruLaw ==
    nputs > capacity =>
        Keys(cache) = SubSeq(touched, 1, Min(capacity, Len(touched)))

\* The state the law fails in: a put that overwrote a present key of a full
\* cache dropped the back entry although no room was needed.
C1_OverwriteEvicted ==
    /\ last.op = "put"
    /\ last.cp \in KeySet(pre)
    /\ Len(cache) < Len(pre)

\* C2: the cache never holds more than `capacity` entries, and one put removes
\* at most one key that was present before it.
C2_Bounded ==
    /\ Len(cache) <= capacity
    /\ last.op = "put" => Cardinality(KeySet(pre) \ KeySet(cache)) <= 1

C2_Witness ==
    /\ last.op = "put"
    /\ Len(pre) = capacity
    /\ capacity >= 2
    /\ Cardinality(KeySet(pre) \ KeySet(cache)) = 1
    /\ Len(cache) = capacity

\* C4: a get of a present key returns the stored value, keeps the keys and
\* their values, makes the key the front entry and keeps the order of the
\* others; contains, and a get of an absent key, change nothing.
C4_GetFrame ==
    /\ (last.op = "get" /\ last.cp \in KeySet(pre)) =>
          /\ \E i \in 1..Len(pre) :
                pre[i].key = last.cp /\ last.ret = <<pre[i].value>>
          /\ KeySet(cache) = KeySet(pre)
          /\ \A i \in 1..Len(pre) : \E j \in 1..Len(cache) : cache[j] = pre[i]
          /\ Len(cache) = Len(pre)
          /\ cache[1].key = last.cp
          /\ Without(Keys(cache), last.cp) = Without(Keys(pre), last.cp)
    /\ (last.op = "get" /\ last.cp \notin KeySet(pre)) =>
          cache = pre /\ last.ret = None
    /\ last.op = "contains" =>
          cache = pre /\ (last.flag <=> last.cp \in KeySet(pre))

C4_Witness ==
    /\ last.op = "get"
    /\ Len(pre) >= 3
    /\ pre[Len(pre)].key = last.cp
    /\ cache[1].key = last.cp
    /\ cache # pre

(***************************************************************************)
(* Claims about PcfFont, under Spec.                                       *)
(***************************************************************************)
SetOf(s) == {s[i] : i \in 1..Len(s)}

\* The code points the font's lookup gives a glyph index.
Resolvable(code_point) == get_glyph_index(font, disk, code_point).index >= 0

\* The lookup as the claims state it: enc1 = codepoint >> 8 without a mask.
StatedOutside(code_point) ==
    \/ (code_point \div 256) < font.min_byte1
    \/ (code_point \div 256) > font.max_byte1
    \/ (code_point % 256) < font.min_byte2
    \/ (code_point % 256) > font.max_byte2

StatedSlot(code_point) ==
    ((code_point \div 256) - font.min_byte1)
            * (font.max_byte2 - font.min_byte2 + 1)
        + ((code_point % 256) - font.min_byte2)

StatedNoGlyph(code_point) ==
    \/ StatedOutside(code_point)
    \/ disk[StatedSlot(code_point) + 1] = NoGlyphSentinel

\* The requested code points of the last load_glyphs that were not cached
\* before it and that resolve, and those of them that `capacity` later puts
\* cannot have evicted: the `capacity` largest.
C3_Loaded == {c \in SetOf(last.batch) : c \notin KeySet(pre) /\ Resolvable(c)}

C3_Largest == {c \in C3_Loaded : Cardinality({d \in C3_Loaded : d > c}) < capacity}

\* C3 as stated: after a load_glyphs that returned, every requested code
\* point that resolves is in the cache.
C3_AllRequestedCached ==
    (last.op = "load_glyphs" /\ last.err = "none") =>
        \A c \in SetOf(last.batch) : Resolvable(c) => c \in KeySet(cache)

\* C3 as amended: after a load_glyphs that returned, of the requested code
\* points that were absent before and resolve, exactly the `capacity` largest
\* (all of them when there are no more than `capacity`) are in the cache.
C3_LargestLoadedCached ==
    (last.op = "load_glyphs" /\ last.err = "none") =>
        /\ C3_Largest \subseteq KeySet(cache)
        /\ (C3_Loaded \ C3_Largest) \cap KeySet(cache) = {}

C3_Witness ==
    /\ last.op = "load_glyphs" /\ last.err = "none"
    /\ Cardinality(C3_Loaded) > capacity
    /\ Len(pre) = capacity
    /\ KeySet(cache) = C3_Largest
    /\ C3_Largest # C3_Loaded

\* C5: a get_glyph of a code point outside the encoding range, or whose slot
\* holds the sentinel, returns None and leaves the cache as it was.
C5_UnsupportedLeavesCache ==
    (last.op = "get_glyph" /\ last.err = "none" /\ StatedNoGlyph(last.cp)) =>
        last.ret = None /\ cache = pre

\* The same for the code points up to 0xFFFF, where the masked and the
\* stated high byte agree.
C5_UnsupportedBelow64K ==
    (last.op = "get_glyph" /\ last.err = "none" /\ StatedNoGlyph(last.cp)
        /\ last.cp < 65536) =>
        last.ret = None /\ cache = pre

\* C6: with a matching magic, a table of contents lacking the metrics, the
\* bitmaps or the encodings table, or both accelerator tables, fails with
\* ValueError.
C6_Required(toc) ==
    LET types == {toc[i].type : i \in 1..Len(toc)}
    IN  /\ {PCF_TABLETYPE_METRICS, PCF_TABLETYPE_BITMAPS,
            PCF_TABLETYPE_BDFENCODINGS} \subseteq types
        /\ types \cap {PCF_TABLETYPE_ACCELERATORS,
                       PCF_TABLETYPE_BDFACCELERATORS} # {}

C6_MissingTableIsFormatError ==
    (last.op = "open" /\ last.file.magic /\ ~C6_Required(last.file.toc)) =>
        last.err = "ValueError"

\* C7: when opening fails, no font is returned and the stream is closed.
C7_StreamReleasedOnFailure ==
    (last.op = "open" /\ last.err # "none") =>
        ~font.opened /\ stream = "closed"

\* C8: the lookup, with enc1 = codepoint >> 8 and enc2 = codepoint & 0xFF,
\* gives "no glyph" without touching the stream when either lies outside its
\* range, and otherwise reads exactly the row-major slot and maps 0xFFFF to
\* "no glyph".
C8_LookupAsStated ==
    (last.op = "_get_glyph_index" /\ last.err = "none") =>
        IF StatedOutside(last.cp)
        THEN last.index = -1 /\ last.reads = <<>>
        ELSE /\ last.reads = <<ReadOf("encodings", StatedSlot(last.cp))>>
             /\ last.index = IF disk[StatedSlot(last.cp) + 1] = NoGlyphSentinel
                             THEN -1 ELSE disk[StatedSlot(last.cp) + 1]

\* C9: when a read of the second pass of load_glyphs fails, the code points
\* of the batch that are in the cache and whose bitmaps were not decoded yet
\* stay there with blank bitmaps (the decoded ones with decoded bitmaps); a
\* later get_glyph of a cached code point with a blank bitmap returns that
\* glyph and reads nothing.
C9_Decoded == Cardinality({i \in 1..Len(last.reads) : last.reads[i].table = "bitmaps"}) - 1

C9_UndecodedStayCached ==
    /\ (last.op = "load_glyphs" /\ last.err = "IoError"
            /\ last.reads[Len(last.reads)].table = "bitmaps") =>
          \A c \in C3_Largest :
             \E i \in 1..Len(cache) :
                /\ cache[i].key = c
                /\ cache[i].value.bitmap =
                      IF Cardinality({d \in C3_Loaded : d < c}) < C9_Decoded
                      THEN "decoded" ELSE "blank"
    /\ (last.op = "get_glyph" /\ last.cp \in KeySet(pre)) =>
          \A i \in 1..Len(pre) :
             (pre[i].key = last.cp /\ pre[i].value.bitmap = "blank") =>
                /\ last.err = "none"
                /\ last.ret = <<pre[i].value>>
                /\ last.reads = <<>>

C9_Witness ==
    /\ last.op = "get_glyph"
    /\ last.ret # None
    /\ last.ret[1].bitmap = "blank"
    /\ last.reads = <<>>

C9_FailureWitness ==
    /\ last.op = "load_glyphs" /\ last.err = "IoError"
    /\ last.reads[Len(last.reads)].table = "bitmaps"
    /\ C9_Decoded = 1
    /\ \E i \in 1..Len(cache) : cache[i].value.bitmap = "blank"
    /\ \E i \in 1..Len(cache) : cache[i].value.bitmap = "decoded"

\* C10: a get_glyph that completes returns a glyph exactly when the lookup
\* gives the code point a glyph index, and the code point is then the front
\* entry of the cache, holding the returned glyph.
C10_GlyphIffResolvable ==
    (last.op = "get_glyph" /\ last.err = "none") =>
        /\ last.ret # None <=> Resolvable(last.cp)
        /\ last.ret # None =>
              cache[1].key = last.cp /\ <<cache[1].value>> = last.ret

C10_Witness ==
    /\ last.op = "get_glyph" /\ last.err = "none"
    /\ capacity = 1
    /\ Len(pre) = 1
    /\ pre[1].key # last.cp
    /\ last.ret # None
    /\ cache[1].key = last.cp

====
